---------------------------- MODULE Spec2Model ----------------------------
(***************************************************************************)
(* A model of pyicloud's photo service (pyicloud/services/photos.py):      *)
(*   - PhotoLibrary construction (the CheckIndexingState gate) and the     *)
(*     album listing,                                                      *)
(*   - PhotoAlbum: the memoized item count (__len__), the photos property  *)
(*     and the fetch_records generator, one step per consumer pull,        *)
(*   - PhotoAsset.versions, the memoized map of quality tiers,             *)
(*   - PhotoAsset.location, mediaMetaData, latitude and longitude,         *)
(*   - two fetch_records generators of one album, pulled in any order,     *)
(*   - parse_fields (pyicloud/utils/photos.py), the field normalizer.      *)
(* The binary property list decoder (pyicloud/utils/bplist.py) is          *)
(* represented by its contract: a table of buffers and what they decode    *)
(* to, and a table of buffers it rejects.                                  *)
(* The query executor (service.session.post) is the environment: every     *)
(* response is drawn from a bounded set.                                   *)
(***************************************************************************)
EXTENDS Integers, Sequences, FiniteSets, TLC

VARIABLES
    \* PhotoLibrary
    lib,            \* "none" | "ready" | "raised": outcome of PhotoLibrary.__init__
    indexing,       \* None, or <<state>> reported by the last CheckIndexingState
    albumsCache,    \* PhotoLibrary._albums is set
    albumQueries,   \* CPLAlbumByPositionLive queries issued
    \* PhotoAlbum
    direction,      \* PhotoAlbum.direction
    lenCache,       \* PhotoAlbum._len: None or <<n>>
    countQueries,   \* HyperionIndexCountLookup queries issued
    lenRet,         \* what the last evaluation of len(album) returned
    \* one fetch_records generator
    status,         \* "none" | "created" | "suspended" | "done" | "raised"
    offset,         \* local offset
    limit,          \* local limit: None, or <<n>>
    total,          \* local total
    response,       \* records of the last page received
    idx,            \* master records of that page already visited by the for loop
    nq,             \* page queries issued by this generator
    lastRank,       \* None, or <<startRank>> of the last page query
    yielded,        \* PhotoAssets handed to the consumer by this generator
    joinedPairs,    \* joined master+asset pairs in the pages received so far
    origin,         \* "none" | "photos" | "fetch_records": what created the generator
    outcome,        \* what the last pull gave: "none" | "asset" | "StopIteration" | "KeyError"
    \* one PhotoAsset
    master_record,  \* fields of PhotoAsset._master_record
    asset_record,   \* fields of PhotoAsset._asset_record
    versionsMemo,   \* PhotoAsset._versions: None, or <<map>>
    built,          \* times the versions map was built (a new dict stored)
    versionsRet,    \* None, or <<map>> returned by the last access of versions
    \* one call of parse_fields
    fields_in,      \* the fields argument: a sequence of <<key, value>> items
    parsed,         \* None, or <<outcome of parse_fields(fields_in)>>
    \* one read of PhotoAsset.latitude or PhotoAsset.longitude
    geoRead,        \* "none" | "latitude" | "longitude": the property read
    geoRet,         \* None, or <<outcome of the read>>
    \* two generators of one album
    gens,           \* generator 1, 2 -> its frame
    fed             \* generator 1, 2 -> what the executor has answered to it

libVars    == <<lib, indexing, albumsCache, albumQueries>>
albumVars  == <<direction, lenCache, countQueries, lenRet>>
streamVars == <<status, offset, limit, total, response, idx, nq, lastRank,
                yielded, joinedPairs, origin, outcome>>
assetVars  == <<master_record, asset_record, versionsMemo, built, versionsRet>>
parseVars  == <<fields_in, parsed>>
geoVars    == <<geoRead, geoRet>>
pairVars   == <<gens, fed>>
extraVars  == <<parseVars, geoVars, pairVars>>
vars       == <<libVars, albumVars, streamVars, assetVars, extraVars>>

----------------------------------------------------------------------------
(* Bounds of the exploration *)

MaxPageLen == 3     \* records in one page
MaxQueries == 3     \* page queries of one generator
MaxCount   == 2     \* largest itemCount the count query reports
MaxLimit   == 3     \* largest limit argument
MaxBuilt   == 3     \* builds of one versions map that are followed
MaxFields  == 2     \* fields of the mapping given to parse_fields
MaxKeyLen  == 6     \* characters of a field name
MaxPairQueries == 2 \* page queries of each of two generators of one album

Ids       == {1, 2}     \* recordName of the master records
AssetRefs == {1}        \* masterRef of the asset records: master 2 has no asset
Offsets   == {0, 1}     \* offset arguments of fetch_records

\* PhotoAlbum.__init__: page_size=100; _list_query_gen asks for page_size * 2 records
page_size    == 100
resultsLimit == page_size * 2

None == <<>>
Some(x) == <<x>>

----------------------------------------------------------------------------
(* Records and pages *)

MasterRec(i) == [recordType |-> "CPLMaster", recordName |-> i, masterRef |-> 0]
AssetRec(i)  == [recordType |-> "CPLAsset",  recordName |-> 0, masterRef |-> i]
OtherRec     == [recordType |-> "Other",     recordName |-> 0, masterRef |-> 0]

Records == {MasterRec(i) : i \in Ids} \cup {AssetRec(i) : i \in AssetRefs} \cup {OtherRec}

Pages == UNION {[1..n -> Records] : n \in 0..MaxPageLen}

\* pages answered to two generators of one album: empty, one or two master
\* records with their asset records, a master record without one
PairPages ==
    { <<>>,
      <<MasterRec(1), AssetRec(1)>>,
      <<AssetRec(2), MasterRec(2)>>,
      <<MasterRec(1), AssetRec(1), MasterRec(2), AssetRec(2)>>,
      <<MasterRec(2)>> }

\* limit arguments given to the two generators
PairLimits == {None, Some(1), Some(2)}

IndexingStates == {"FINISHED", "RUNNING"}
Directions     == {"ASCENDING", "DESCENDING"}

\* master_records: the CPLMaster records of a page, in response order
IsMaster(rec) == rec.recordType = "CPLMaster"
MasterRecords(resp) == SelectSeq(resp, IsMaster)

\* asset_records: masterRef -> position of the last CPLAsset record with it
AssetRecords(resp) ==
    LET keys == {resp[k].masterRef : k \in {j \in 1..Len(resp) : resp[j].recordType = "CPLAsset"}}
    IN  [m \in keys |->
            CHOOSE k \in 1..Len(resp) :
                /\ resp[k].recordType = "CPLAsset"
                /\ resp[k].masterRef = m
                /\ \A j \in (k+1)..Len(resp) :
                       ~(resp[j].recordType = "CPLAsset" /\ resp[j].masterRef = m)]

\* asset_records[record_name] succeeds
HasAssetAlways(resp, name) == TRUE
HasAsset(resp, name) == name \in DOMAIN AssetRecords(resp)

\* if master_records_len: ... else: break
NoMasters(resp) == Len(MasterRecords(resp)) = 0

\* offset = offset -/+ master_records_len
AdvanceIgnoringDirection(off, resp, dir) == off + Len(MasterRecords(resp))
AdvanceByRecordCount(off, resp, dir) ==
    IF dir = "DESCENDING" THEN off - Len(resp) ELSE off + Len(resp)
AdvanceOffset(off, resp, dir) ==
    IF dir = "DESCENDING"
    THEN off - Len(MasterRecords(resp))
    ELSE off + Len(MasterRecords(resp))

\* the for loop over master_records has visited every record
PageExhaustedEarly(i, resp) == i >= 1
PageExhausted(i, resp) == i = Len(MasterRecords(resp))

\* while total < limit
LoopRunsOffByOne(t, l) == t + 1 < l
LoopRuns(t, l) == t < l

\* if self._len is None
LenMissFalsy(cache) == cache = None \/ cache = Some(0)
LenMiss(cache) == cache = None

\* if not limit
Falsy(l) == l = None \/ l = Some(0)

\* if indexing_state != "FINISHED": raise
IndexingAlwaysAccepted(s) == TRUE
IndexingFinished(s) == s = "FINISHED"

----------------------------------------------------------------------------
(* What a page holds, read off the response itself (used by the properties) *)

\* CPLMaster records in a page
NumMasters(resp) ==
    Cardinality({k \in 1..Len(resp) : resp[k].recordType = "CPLMaster"})

\* CPLMaster records in a page whose recordName is the masterRef of a
\* CPLAsset record of the same page
JoinedCount(resp) ==
    Cardinality({k \in 1..Len(resp) :
        /\ resp[k].recordType = "CPLMaster"
        /\ \E j \in 1..Len(resp) :
               /\ resp[j].recordType = "CPLAsset"
               /\ resp[j].masterRef = resp[k].recordName})

----------------------------------------------------------------------------
(* PhotoLibrary *)

\* PhotoLibrary.__init__: posts CheckIndexingState, raises unless FINISHED
Construct ==
    /\ lib \in {"none", "raised"}
    /\ \E s \in IndexingStates :
        /\ indexing' = Some(s)
        /\ lib' = IF IndexingFinished(s) THEN "ready" ELSE "raised"
    /\ UNCHANGED <<albumsCache, albumQueries, albumVars, streamVars, assetVars, extraVars>>

\* PhotoLibrary.albums: builds the albums once, with one folder query
Albums ==
    /\ lib = "ready"
    /\ albumsCache' = TRUE
    /\ albumQueries' = IF albumsCache THEN albumQueries ELSE albumQueries + 1
    /\ UNCHANGED <<lib, indexing, albumVars, streamVars, assetVars, extraVars>>

----------------------------------------------------------------------------
(* PhotoAlbum.__len__ *)

\* the value len(self) returns when the count query would answer c
LenValue(c) == IF LenMiss(lenCache) THEN c ELSE lenCache[1]

\* the effect of one evaluation of len(self)
LenEffect(c) ==
    /\ lenCache' = IF LenMiss(lenCache) THEN Some(c) ELSE lenCache
    /\ countQueries' = IF LenMiss(lenCache) THEN countQueries + 1 ELSE countQueries
    /\ lenRet' = Some(LenValue(c))

\* len(album)
LenCall ==
    /\ lib = "ready"
    /\ \E c \in 0..MaxCount : LenEffect(c)
    /\ UNCHANGED <<libVars, direction, streamVars, assetVars, extraVars>>

----------------------------------------------------------------------------
(* PhotoAlbum.photos / fetch_records: creating the generator *)

NewStream(off, lim, by) ==
    /\ status' = "created"
    /\ origin' = by
    /\ offset' = off
    /\ limit' = lim
    /\ total' = 0
    /\ response' = <<>>
    /\ idx' = 0
    /\ nq' = 0
    /\ lastRank' = None
    /\ yielded' = 0
    /\ joinedPairs' = 0
    /\ outcome' = "none"

\* the start would be the item count itself
PhotosOffsetIsCount(dir, n) == IF dir = "DESCENDING" THEN n ELSE 0

\* lines 408-411: the offset album.photos starts from, n being len(self)
PhotosOffset(dir, n) == IF dir = "DESCENDING" THEN n - 1 ELSE 0

\* album.photos (and iter(album)): DESCENDING evaluates len(self) at once
Photos ==
    /\ lib = "ready"
    /\ IF direction = "DESCENDING"
       THEN \E c \in 0..MaxCount :
                /\ LenEffect(c)
                /\ NewStream(PhotosOffset(direction, LenValue(c)), None, "photos")
       ELSE /\ NewStream(PhotosOffset(direction, 0), None, "photos")
            /\ UNCHANGED <<lenCache, countQueries, lenRet>>
    /\ UNCHANGED <<libVars, direction, assetVars, extraVars>>

\* album.fetch_records(offset, limit): nothing runs before the first pull
FetchRecords ==
    /\ lib = "ready"
    /\ \E off \in Offsets, lim \in {None} \cup {Some(l) : l \in 0..MaxLimit} :
           NewStream(off, lim, "fetch_records")
    /\ UNCHANGED <<libVars, albumVars, assetVars, extraVars>>

----------------------------------------------------------------------------
(* One pull of the generator: next(gen) *)

\* The for loop visits master record i+1 of page resp: total += 1, then the
\* lookup asset_records[record_name], then the yield.
VisitMaster(resp, i, tot) ==
    /\ idx' = i + 1
    /\ total' = tot + 1
    /\ IF HasAsset(resp, MasterRecords(resp)[i + 1].recordName)
       THEN /\ status' = "suspended"
            /\ yielded' = yielded + 1
            /\ outcome' = "asset"
       ELSE /\ status' = "raised"
            /\ yielded' = yielded
            /\ outcome' = "KeyError"

\* The generator returns: StopIteration
Finish ==
    /\ status' = "done"
    /\ outcome' = "StopIteration"
    /\ yielded' = yielded

\* The while loop, entered with locals (off, lim, tot)
Loop(off, lim, tot) ==
    /\ limit' = Some(lim)
    /\ IF LoopRuns(tot, lim)
       THEN /\ nq < MaxQueries
            /\ nq' = nq + 1
            /\ lastRank' = Some(off)
            /\ \E page \in Pages :
                /\ response' = page
                /\ joinedPairs' = joinedPairs + JoinedCount(page)
                /\ IF NoMasters(page)
                   THEN /\ Finish
                        /\ UNCHANGED <<offset, total, idx>>
                   ELSE /\ offset' = AdvanceOffset(off, page, direction)
                        /\ VisitMaster(page, 0, tot)
       ELSE /\ Finish
            /\ UNCHANGED <<offset, total, response, idx, nq, lastRank, joinedPairs>>

\* First pull: the body starts, limit defaults to len(self)
PullFirst ==
    /\ status = "created"
    /\ IF Falsy(limit)
       THEN \E c \in 0..MaxCount :
                /\ LenEffect(c)
                /\ Loop(offset, LenValue(c), 0)
       ELSE /\ Loop(offset, limit[1], 0)
            /\ UNCHANGED <<lenCache, countQueries, lenRet>>
    /\ UNCHANGED <<libVars, direction, assetVars, extraVars, origin>>

\* Later pull: resume after the yield
PullNext ==
    /\ status = "suspended"
    /\ IF PageExhausted(idx, response)
       THEN Loop(offset, limit[1], total)
       ELSE /\ VisitMaster(response, idx, total)
            /\ UNCHANGED <<offset, limit, response, nq, lastRank, joinedPairs>>
    /\ UNCHANGED <<libVars, albumVars, assetVars, extraVars, origin>>

\* Pull on a generator that has returned or raised: StopIteration, nothing runs
PullFinished ==
    /\ status \in {"done", "raised"}
    /\ outcome' = "StopIteration"
    /\ UNCHANGED <<libVars, albumVars, assetVars, extraVars, status, offset, limit, total,
                   response, idx, nq, lastRank, yielded, joinedPairs, origin>>

----------------------------------------------------------------------------

----------------------------------------------------------------------------
(* PhotoAsset: item_type, filename and versions *)

ITEM_TYPES ==
    ("public.heic" :> "image") @@ ("public.jpeg" :> "image") @@
    ("public.png" :> "image") @@ ("com.apple.quicktime-movie" :> "movie")

ITEM_TYPE_SUFFIX ==
    ("public.heic" :> "HEIC") @@ ("public.jpeg" :> "JPEG") @@
    ("public.png" :> "PNG") @@ ("com.apple.quicktime-movie" :> "MOV")

PHOTO_VERSION_LOOKUP ==
    ("full" :> "resJPEGFull") @@ ("large" :> "resJPEGLarge") @@
    ("medium" :> "resJPEGMed") @@ ("thumb" :> "resJPEGThumb") @@
    ("sidecar" :> "resSidecar") @@ ("original" :> "resOriginal") @@
    ("original_alt" :> "resOriginalAlt") @@ ("live" :> "resOriginalVidCompl")

VIDEO_VERSION_LOOKUP ==
    ("full" :> "resVidFull") @@ ("medium" :> "resVidMed") @@
    ("thumb" :> "resVidSmall") @@ ("original" :> "resOriginal") @@
    ("original_compl" :> "resOriginalVidCompl")

\* The <prefix>Res, <prefix>Width, <prefix>Height and <prefix>FileType fields
\* of one prefix, as one entry: res is the value of <prefix>Res, the others
\* are None when the field is missing.
ResEntries ==
    { [res |-> [size |-> 1, downloadURL |-> "u1"],
       width |-> Some(640), height |-> Some(480), fileType |-> Some("public.jpeg")],
      [res |-> [size |-> 2, downloadURL |-> "u2"],
       width |-> Some(320), height |-> None, fileType |-> None],
      [res |-> [size |-> 2, downloadURL |-> "u1"],
       width |-> None, height |-> Some(240), fileType |-> Some("public.tiff")] }

\* The prefixes the records of the exploration may carry
Prefixes == {"resOriginal", "resJPEGThumb", "resVidSmall"}

\* File names as their dot-separated parts
Filenames == { <<"IMG_0001", "JPG">>, <<"clip", "MOV">>, <<"noext">> }

\* itemType tags: one per kind, and one ITEM_TYPES does not know
ItemTypeTags == {"public.jpeg", "com.apple.quicktime-movie", "public.tiff"}

\* fields of a record: the prefixes that have a <prefix>Res field, each with
\* its entry; for a master record also filenameEnc (decoded) and itemType
ResFieldSets ==
    UNION { [ps -> ResEntries] : ps \in SUBSET Prefixes }

NoMasterFields == [res |-> <<>>, filename |-> <<"noext">>, itemType |-> "public.tiff"]
NoAssetFields  == [res |-> <<>>]

MasterFieldSets ==
    [res : ResFieldSets, filename : Filenames, itemType : ItemTypeTags]

AssetFieldSets ==
    [res : ResFieldSets]

\* str.lower() on the extensions of the exploration
Lower(str) ==
    CASE str = "JPG" -> "jpg"
      [] str = "MOV" -> "mov"
      [] OTHER -> str

\* PhotoAsset.filename: the decoded filenameEnc of the master record
filename == master_record.filename

\* PhotoAsset.item_type
item_type ==
    IF master_record.itemType \in DOMAIN ITEM_TYPES
    THEN ITEM_TYPES[master_record.itemType]
    ELSE IF /\ Len(filename) >= 2
            /\ Lower(filename[Len(filename)]) \in {"heic", "png", "jpg", "jpeg"}
         THEN "image"
         ELSE "movie"

\* typed_version_lookup
typed_version_lookup ==
    IF item_type = "movie" THEN VIDEO_VERSION_LOOKUP ELSE PHOTO_VERSION_LOOKUP

\* *base, suffix = filename.split("."); f"{base}.{suffix}" with the suffix
\* of the type tag, the own suffix when the tag is unknown
VersionFilename(tag) ==
    LET base   == SubSeq(filename, 1, Len(filename) - 1)
        suffix == IF tag \in DOMAIN ITEM_TYPE_SUFFIX
                  THEN ITEM_TYPE_SUFFIX[tag]
                  ELSE filename[Len(filename)]
    IN  (IF base = <<>> THEN <<"">> ELSE base) \o <<suffix>>

\* the version dict built from the fields of one record for one prefix
Version(fields, prefix) ==
    LET e == fields.res[prefix]
    IN  [filename |-> IF e.fileType # None THEN VersionFilename(e.fileType[1])
                      ELSE filename,
         width    |-> e.width,
         height   |-> e.height,
         size     |-> Some(e.res.size),
         url      |-> Some(e.res.downloadURL),
         type     |-> e.fileType]

\* for key, prefix in typed_version_lookup.items(): if f"{prefix}Res" in
\* record["fields"]: self._versions[key] = version
StoreVersions(map, fields) ==
    LET keys == {k \in DOMAIN typed_version_lookup :
                    typed_version_lookup[k] \in DOMAIN fields.res}
    IN  [k \in (DOMAIN map) \cup keys |->
            IF k \in keys THEN Version(fields, typed_version_lookup[k])
            ELSE map[k]]

\* for record in (self._master_record, self._asset_record)
AssetThenMaster == <<asset_record, master_record>>
RecordOrder == <<master_record, asset_record>>

\* the map the versions property builds
BuildVersions ==
    StoreVersions(StoreVersions(<<>>, RecordOrder[1]), RecordOrder[2])

\* if not self._versions
VersionsMissOnlyNone(memo) == memo = None
VersionsMiss(memo) == memo = None \/ memo = Some(<<>>)

\* PhotoAsset.versions, the map is built and stored
VersionsBuild ==
    /\ VersionsMiss(versionsMemo)
    /\ built < MaxBuilt
    /\ built' = built + 1
    /\ versionsMemo' = Some(BuildVersions)
    /\ versionsRet' = Some(BuildVersions)
    /\ UNCHANGED <<libVars, albumVars, streamVars, extraVars, master_record, asset_record>>

\* PhotoAsset.versions, the stored map is returned
VersionsCached ==
    /\ ~VersionsMiss(versionsMemo)
    /\ versionsRet' = versionsMemo
    /\ UNCHANGED <<libVars, albumVars, streamVars, extraVars, master_record,
                   asset_record, versionsMemo, built>>

----------------------------------------------------------------------------
(* parse_fields (pyicloud/utils/photos.py)                                 *)

\* Python values. A str or bytes value is named by a token, a dict is the
\* sequence of its <<key, value>> items in insertion order, and a key is the
\* sequence of its characters.
PyInt(n) == [t |-> "int", v |-> <<n>>]

PyStr(s) == [t |-> "str", v |-> <<s>>]

PyBytes(b) == [t |-> "bytes", v |-> <<b>>]

PyTuple(a, b) == [t |-> "tuple", v |-> <<a, b>>]

PyDict(items) == [t |-> "dict", v |-> items]

\* the outcome of a call: a returned value, or the exception that escapes it
Ok(x) == [exc |-> "none", val |-> <<x>>]

Raise(e) == [exc |-> e, val |-> <<>>]

Enc == <<"E", "n", "c">>

KeyValue == <<"v", "a", "l", "u", "e">>

KeyLat == <<"l", "a", "t">>

\* key.endswith(suffix)
EndsWith(key, suffix) ==
    /\ Len(key) >= Len(suffix)
    /\ SubSeq(key, Len(key) - Len(suffix) + 1, Len(key)) = suffix

\* key.replace(old, new): every occurrence of old, scanning left to right
RECURSIVE Replace(_, _, _)
Replace(key, old, new) ==
    IF Len(key) < Len(old) THEN key
    ELSE IF SubSeq(key, 1, Len(old)) = old
         THEN new \o Replace(SubSeq(key, Len(old) + 1, Len(key)), old, new)
         ELSE <<Head(key)>> \o Replace(Tail(key), old, new)

\* dict.get(key, default) on an item sequence
DictGet(items, key, default) ==
    IF \E i \in 1..Len(items) : items[i][1] = key
    THEN items[CHOOSE i \in 1..Len(items) : items[i][1] = key][2]
    ELSE default

\* dict[key] = val: an existing key keeps its position
DictSet(items, key, val) ==
    IF \E i \in 1..Len(items) : items[i][1] = key
    THEN [i \in 1..Len(items) |->
             IF items[i][1] = key THEN <<key, val>> ELSE items[i]]
    ELSE Append(items, <<key, val>>)

\* base64 texts and the bytes they stand for; "abc" is not valid base64
\* (incorrect padding)
Base64Table ==
    ("YnBsaXN0MDA6c3RyaW5n" :> "bplist00:string") @@
    ("YnBsaXN0MDA6ZGljdA==" :> "bplist00:dict") @@
    ("YnBsaXN0MDA6dHJ1bmNhdGVk" :> "bplist00:truncated") @@
    ("YnBsaXN0MDA6dGFn" :> "bplist00:tag") @@
    ("aGVsbG8=" :> "hello") @@
    ("/w==" :> "0xFF") @@
    ("//5BAA==" :> "0xFFFE4100") @@
    ("YnBsaXN0MDA6bG9jYXRpb24=" :> "bplist00:location") @@
    ("YnBsaXN0MDA6bG9jYXRpb24tZW1wdHk=" :> "bplist00:location-empty") @@
    ("YnBsaXN0MDA6bG9jYXRpb24tbGF0LW9ubHk=" :> "bplist00:location-lat-only") @@
    ("YnBsaXN0MDA6bWV0YWRhdGEtZ3Bz" :> "bplist00:metadata-gps") @@
    ("YnBsaXN0MDA6bWV0YWRhdGEtbm8tZ3Bz" :> "bplist00:metadata-no-gps") @@
    ("YnBsaXN0MDA6bWV0YWRhdGEtZ3BzLWxhdC1vbmx5" :> "bplist00:metadata-gps-lat-only")

\* base64.b64decode(val)
b64decode(val) ==
    IF val.t \notin {"str", "bytes"} THEN Raise("TypeError")
    ELSE IF val.v[1] \in DOMAIN Base64Table THEN Ok(Base64Table[val.v[1]])
    ELSE Raise("binascii.Error")

KeyLon == <<"l", "o", "n">>

KeyGPS == <<"{", "G", "P", "S", "}">>

KeyExif == <<"{", "E", "x", "i", "f", "}">>

KeyLatitude == <<"L", "a", "t", "i", "t", "u", "d", "e">>

KeyLongitude == <<"L", "o", "n", "g", "i", "t", "u", "d", "e">>

\* a decoded location structure: reference pairs under lat and lon
LocationPlist ==
    PyDict(<< <<KeyLat, PyTuple(PyInt(0), PyInt(37))>>,
              <<KeyLon, PyTuple(PyInt(0), PyInt(122))>> >>)

\* a decoded metadata blob with a {GPS} substructure
MetadataPlist ==
    PyDict(<< <<KeyGPS, PyDict(<< <<KeyLatitude, PyTuple(PyInt(0), PyInt(48))>>,
                                  <<KeyLongitude, PyTuple(PyInt(0), PyInt(2))>> >>)>> >>)

\* buffers that are well-formed binary property lists, and what they hold
PlistTable ==
    ("bplist00:string" :> PyStr("IMG_0001.JPG")) @@
    ("bplist00:dict" :> PyDict(<< <<KeyLat, PyTuple(PyInt(0), PyInt(37))>> >>)) @@
    ("bplist00:location" :> LocationPlist) @@
    ("bplist00:loc" :> LocationPlist) @@
    ("bplist00:location-empty" :> PyDict(<<>>)) @@
    ("bplist00:location-lat-only" :>
        PyDict(<< <<KeyLat, PyTuple(PyInt(0), PyInt(37))>> >>)) @@
    ("bplist00:metadata-gps" :> MetadataPlist) @@
    ("bplist00:gps" :> MetadataPlist) @@
    ("bplist00:metadata-no-gps" :> PyDict(<< <<KeyExif, PyDict(<<>>)>> >>)) @@
    ("bplist00:metadata-gps-lat-only" :>
        PyDict(<< <<KeyGPS, PyDict(<< <<KeyLatitude, PyTuple(PyInt(0), PyInt(48))>> >>)>> >>))

\* buffers with the magic header that the decoder rejects
PlistFailures ==
    ("bplist00:truncated" :> "Truncated") @@
    ("bplist00:tag" :> "UnsupportedTag")

\* BPListReader(data).parse()
BPListReader_parse(data) ==
    IF data \in DOMAIN PlistTable THEN Ok(PlistTable[data])
    ELSE IF data \in DOMAIN PlistFailures THEN Raise(PlistFailures[data])
    ELSE Raise("BadMagicException")

\* bytes that are not valid UTF-8; of these, the ones that are valid UTF-16
NotUtf8 == {"0xFF", "0xFFFE4100"}

Utf16Table == ("0xFFFE4100" :> "A")

\* lines 26-33: bytes are decoded as UTF-8, else as UTF-16, else kept
DecodeText(val) ==
    IF val.t # "bytes" THEN val
    ELSE IF val.v[1] \notin NotUtf8 THEN PyStr(val.v[1])
    ELSE IF val.v[1] \in DOMAIN Utf16Table THEN PyStr(Utf16Table[val.v[1]])
    ELSE val

\* lines 12-13: a typed-value envelope is replaced by its "value"
Unwrap(value) ==
    IF value.t = "dict" THEN DictGet(value.v, KeyValue, value) ELSE value

\* lines 15-19: only BadMagicException is caught, and the base64-decoded
\* bytes are kept in its place
DecodeEnc(val) ==
    LET data == b64decode(val)
    IN  IF data.exc # "none" THEN data
        ELSE LET plist == BPListReader_parse(data.val[1])
             IN  IF plist.exc = "BadMagicException"
                 THEN Ok(PyBytes(data.val[1]))
                 ELSE plist

\* line 20
OutputKey(key) == IF EndsWith(key, Enc) THEN Replace(key, Enc, <<>>) ELSE key

\* lines 24-25
SecondOfPair(val) == IF val.t = "tuple" THEN val.v[2] ELSE val

RECURSIVE parse_fields(_)
\* one turn of the loop over fields.items(): the <<key, val>> stored
ParseField(key, value) ==
    LET val == Unwrap(value)
        dec == IF EndsWith(key, Enc) THEN DecodeEnc(val) ELSE Ok(val)
    IN  IF dec.exc # "none" THEN dec
        ELSE LET sub == IF dec.val[1].t = "dict"
                        THEN parse_fields(dec.val[1].v)
                        ELSE dec
             IN  IF sub.exc # "none" THEN sub
                 ELSE Ok(<<OutputKey(key), DecodeText(SecondOfPair(sub.val[1]))>>)

\* the loop over fields.items(), from the items left and the dict built
RECURSIVE ParseItems(_, _)
ParseItems(fields, parsed_) ==
    IF fields = <<>> THEN Ok(PyDict(parsed_))
    ELSE LET item == ParseField(fields[1][1], fields[1][2])
         IN  IF item.exc # "none" THEN item
             ELSE ParseItems(Tail(fields),
                             DictSet(parsed_, item.val[1][1], item.val[1][2]))

parse_fields(fields) == ParseItems(fields, <<>>)

\* a call of parse_fields on the given mapping
ParseCall ==
    /\ parsed = None
    /\ parsed' = Some(parse_fields(fields_in))
    /\ UNCHANGED <<libVars, albumVars, streamVars, assetVars, geoVars, pairVars,
                   fields_in>>

----------------------------------------------------------------------------
(* PhotoAsset.location, mediaMetaData, latitude and longitude              *)

PyNone == [t |-> "None", v |-> <<>>]

\* truth value of a Python value
Truthy(val) ==
    CASE val.t = "None" -> FALSE
      [] val.t = "int" -> val.v[1] # 0
      [] val.t \in {"str", "bytes"} -> val.v[1] # ""
      [] val.t = "dict" -> val.v # <<>>
      [] OTHER -> TRUE

\* fields.get(name, {}).get("value") for a field that is None when the
\* record does not hold it, and <<its envelope>> otherwise
FieldValue(field) ==
    IF field = None THEN PyNone ELSE DictGet(field[1].v, KeyValue, PyNone)

\* BPListReader(base64.b64decode(value)).parse()
FromBase64(value) ==
    LET data == b64decode(value)
    IN  IF data.exc # "none" THEN data ELSE BPListReader_parse(data.val[1])

\* only a failure of the decoder itself would be caught
TryDecodeCatchingFirstOnly(value) ==
    IF FromBase64(value).exc = "none" THEN FromBase64(value)
    ELSE BPListReader_parse(value.v[1])

\* lines 675-683 and 691-699: every exception of the first attempt leads to
\* the second attempt (the value taken as a property list itself), and
\* every exception of the second one to a bare return
TryDecode(value) ==
    IF FromBase64(value).exc = "none" THEN FromBase64(value)
    ELSE IF BPListReader_parse(value.v[1]).exc = "none"
         THEN BPListReader_parse(value.v[1])
         ELSE Ok(PyNone)

\* a property whose value is the decoded field, None for a falsy value
DecodedField(field) ==
    IF Truthy(FieldValue(field)) THEN TryDecode(FieldValue(field)) ELSE Ok(PyNone)

\* PhotoAsset.location
location(asset) == DecodedField(asset.locationEnc)

\* PhotoAsset.mediaMetaData
mediaMetaData(master) == DecodedField(master.mediaMetaDataEnc)

\* d[key] on an item sequence
DictItem(items, key) ==
    IF \E i \in 1..Len(items) : items[i][1] = key
    THEN Ok(DictGet(items, key, PyNone))
    ELSE Raise("KeyError")

\* lines 710-713 and 725-728: the {GPS} entry of the metadata
FromMetadata(meta, gpsKey) ==
    IF meta.exc # "none" THEN meta
    ELSE IF /\ Truthy(meta.val[1])
            /\ Truthy(DictGet(meta.val[1].v, KeyGPS, PyNone))
            /\ Truthy(DictGet(DictGet(meta.val[1].v, KeyGPS, PyNone).v, gpsKey, PyNone))
         THEN Ok(DictGet(DictGet(meta.val[1].v, KeyGPS, PyNone).v, gpsKey, PyNone).v[2])
         ELSE Ok(PyNone)

\* lines 708-709 and 722-723: the entry of the location
FromLocation(loc, locKey) ==
    IF DictItem(loc.v, locKey).exc # "none" THEN DictItem(loc.v, locKey)
    ELSE Ok(DictItem(loc.v, locKey).val[1].v[2])

\* the metadata would be asked before the location
CoordinateMetadataFirst(master, asset, locKey, gpsKey) ==
    IF FromMetadata(mediaMetaData(master), gpsKey) # Ok(PyNone)
    THEN FromMetadata(mediaMetaData(master), gpsKey)
    ELSE IF location(asset).exc # "none" THEN location(asset)
    ELSE IF Truthy(location(asset).val[1])
         THEN FromLocation(location(asset).val[1], locKey)
         ELSE Ok(PyNone)

\* the body shared by latitude and longitude; the raw locationLatitude /
\* locationLongitude field is printed only
Coordinate(master, asset, locKey, gpsKey) ==
    IF location(asset).exc # "none" THEN location(asset)
    ELSE IF Truthy(location(asset).val[1])
         THEN FromLocation(location(asset).val[1], locKey)
         ELSE FromMetadata(mediaMetaData(master), gpsKey)

\* PhotoAsset.latitude
latitude(master, asset) == Coordinate(master, asset, KeyLat, KeyLatitude)

\* PhotoAsset.longitude
longitude(master, asset) == Coordinate(master, asset, KeyLon, KeyLongitude)

ReadLatitude ==
    /\ geoRead = "none"
    /\ geoRead' = "latitude"
    /\ geoRet' = Some(latitude(master_record, asset_record))
    /\ UNCHANGED <<libVars, albumVars, streamVars, assetVars, parseVars, pairVars>>

ReadLongitude ==
    /\ geoRead = "none"
    /\ geoRead' = "longitude"
    /\ geoRet' = Some(longitude(master_record, asset_record))
    /\ UNCHANGED <<libVars, albumVars, streamVars, assetVars, parseVars, pairVars>>

----------------------------------------------------------------------------
(* Two fetch_records generators of one PhotoAlbum                          *)

\* the frame of a generator: its status and the locals of fetch_records;
\* asset is the recordName of the master record of the last PhotoAsset
\* yielded (0: none)
NoFrame ==
    [status |-> "none", offset |-> 0, limit |-> None, total |-> 0,
     response |-> <<>>, idx |-> 0, nq |-> 0, lastRank |-> None, asset |-> 0]

\* a generator object just made: the body has not started
NewFrame(off, lim) ==
    [NoFrame EXCEPT !.status = "created", !.offset = off, !.limit = lim]

\* every generator would run on the frame of the first one
SharedLocals(g, s) == g[1]

\* the locals of a generator function live in the generator's own frame
Locals(g, s) == g[s]

\* the for loop visits master record i+1 of the page held by frame f
FrameVisit(f, i, tot) ==
    [f EXCEPT !.idx = i + 1,
              !.total = tot + 1,
              !.status = IF HasAsset(f.response, MasterRecords(f.response)[i + 1].recordName)
                         THEN "suspended" ELSE "raised",
              !.asset = IF HasAsset(f.response, MasterRecords(f.response)[i + 1].recordName)
                        THEN MasterRecords(f.response)[i + 1].recordName ELSE 0]

\* the while loop entered with locals (off, lim, tot); page answers the
\* query if one is sent
FrameLoop(f, off, lim, tot, page, dir) ==
    IF ~LoopRuns(tot, lim) THEN [f EXCEPT !.status = "done", !.asset = 0]
    ELSE IF NoMasters(page)
         THEN [f EXCEPT !.status = "done", !.asset = 0, !.response = page,
                        !.nq = f.nq + 1, !.lastRank = Some(off)]
         ELSE FrameVisit([f EXCEPT !.response = page,
                                   !.nq = f.nq + 1,
                                   !.lastRank = Some(off),
                                   !.offset = AdvanceOffset(off, page, dir)],
                         0, tot)

\* next(gen) on frame f; n is len(self), read when no limit was given
FramePull(f, page, n, dir) ==
    IF f.status = "created"
    THEN FrameLoop([f EXCEPT !.limit = Some(IF Falsy(f.limit) THEN n ELSE f.limit[1])],
                   f.offset, IF Falsy(f.limit) THEN n ELSE f.limit[1], 0, page, dir)
    ELSE IF PageExhausted(f.idx, f.response)
         THEN FrameLoop(f, f.offset, f.limit[1], f.total, page, dir)
         ELSE FrameVisit(f, f.idx, f.total)

\* what the executor has answered to one generator: the offset the
\* generator was made with, the last page it was sent, and the number of
\* master records of the pages sent before that one
NotFed == [start |-> 0, before |-> 0, page |-> <<>>, queries |-> 0]

Feed(a, page) ==
    [a EXCEPT !.before = a.before + NumMasters(a.page),
              !.page = page,
              !.queries = a.queries + 1]

\* album.photos, giving generator s
PairPhotos(s) ==
    /\ gens[s].status = "none"
    /\ IF direction = "DESCENDING"
       THEN \E c \in 0..MaxCount :
                /\ LenEffect(c)
                /\ gens' = [gens EXCEPT ![s] =
                               NewFrame(PhotosOffset(direction, LenValue(c)), None)]
                /\ fed' = [fed EXCEPT ![s] =
                              [NotFed EXCEPT !.start = PhotosOffset(direction, LenValue(c))]]
       ELSE /\ gens' = [gens EXCEPT ![s] = NewFrame(PhotosOffset(direction, 0), None)]
            /\ fed' = [fed EXCEPT ![s] = NotFed]
            /\ UNCHANGED <<lenCache, countQueries, lenRet>>
    /\ UNCHANGED <<libVars, direction, streamVars, assetVars, parseVars, geoVars>>

\* album.fetch_records(off, lim), giving generator s
PairFetchRecords(s) ==
    /\ gens[s].status = "none"
    /\ \E off \in Offsets, lim \in PairLimits :
        /\ gens' = [gens EXCEPT ![s] = NewFrame(off, lim)]
        /\ fed' = [fed EXCEPT ![s] = [NotFed EXCEPT !.start = off]]
    /\ UNCHANGED <<libVars, albumVars, streamVars, assetVars, parseVars, geoVars>>

\* next() on generator s
PairPull(s) ==
    /\ Locals(gens, s).status \in {"created", "suspended"}
    /\ \E page \in PairPages, c \in 0..MaxCount :
        LET me == Locals(gens, s)
            after == FramePull(me, page, LenValue(c), direction)
        IN  /\ after.nq <= MaxPairQueries
            /\ IF me.status = "created" /\ Falsy(me.limit)
               THEN LenEffect(c)
               ELSE UNCHANGED <<lenCache, countQueries, lenRet>>
            /\ gens' = [gens EXCEPT ![s] = after]
            /\ fed' = IF after.nq > me.nq
                      THEN [fed EXCEPT ![s] = Feed(fed[s], page)]
                      ELSE fed
    /\ UNCHANGED <<libVars, direction, streamVars, assetVars, parseVars, geoVars>>

----------------------------------------------------------------------------

\* PhotoLibrary not yet constructed, album fresh, no generator
ServiceInit ==
    /\ lib = "none"
    /\ indexing = None
    /\ albumsCache = FALSE
    /\ albumQueries = 0
    /\ direction \in Directions
    /\ lenCache = None
    /\ countQueries = 0
    /\ lenRet = None
    /\ status = "none"
    /\ offset = 0
    /\ limit = None
    /\ total = 0
    /\ response = <<>>
    /\ idx = 0
    /\ nq = 0
    /\ lastRank = None
    /\ yielded = 0
    /\ joinedPairs = 0
    /\ origin = "none"
    /\ outcome = "none"

\* PhotoAsset.__init__: the two records are stored, _versions = None
AssetInit(master, asset) ==
    /\ master_record = master
    /\ asset_record = asset
    /\ versionsMemo = None
    /\ built = 0
    /\ versionsRet = None

\* no call of parse_fields
ParseIdle ==
    /\ fields_in = <<>>
    /\ parsed = None

\* no coordinate read
GeoIdle ==
    /\ geoRead = "none"
    /\ geoRet = None

\* no generator
PairIdle ==
    /\ gens = [s \in 1..2 |-> NoFrame]
    /\ fed = [s \in 1..2 |-> NotFed]

ExtraIdle ==
    /\ ParseIdle
    /\ GeoIdle
    /\ PairIdle

Init ==
    /\ ServiceInit
    /\ AssetInit(NoMasterFields, NoAssetFields)
    /\ ExtraIdle

Next ==
    \/ Construct
    \/ Albums
    \/ LenCall
    \/ Photos
    \/ FetchRecords
    \/ PullFirst
    \/ PullNext
    \/ PullFinished

Spec == Init /\ [][Next]_vars

\* One PhotoAsset over any pair of records, its versions property read again
\* and again
VersionsInit ==
    /\ ServiceInit
    /\ direction = "ASCENDING"
    /\ \E master \in MasterFieldSets, asset \in AssetFieldSets :
           AssetInit(master, asset)
    /\ ExtraIdle

VersionsNext ==
    \/ VersionsBuild
    \/ VersionsCached

VersionsSpec == VersionsInit /\ [][VersionsNext]_vars

\* the photo service at rest: no library, no generator, a bare PhotoAsset
PhotosIdle ==
    /\ ServiceInit
    /\ direction = "ASCENDING"
    /\ AssetInit(NoMasterFields, NoAssetFields)

\* field names of a record: one plain, two marked as encoded
FieldKeys == {<<"i", "d">>, <<"a">> \o Enc, <<"b">> \o Enc}

\* a typed-value envelope as the service sends it
Envelope(x) == PyDict(<< <<KeyValue, x>> >>)

\* field values: plain, wrapped, nested, encoded property lists, and encoded
\* content that fails to decode
FieldValues ==
    { PyInt(7), Envelope(PyInt(7)),
      PyDict(<< <<KeyLat, PyTuple(PyInt(0), PyInt(37))>> >>),
      PyStr("YnBsaXN0MDA6c3RyaW5n"), Envelope(PyStr("YnBsaXN0MDA6c3RyaW5n")),
      PyStr("YnBsaXN0MDA6ZGljdA=="),
      PyStr("aGVsbG8="), PyStr("/w=="), PyStr("//5BAA=="),
      PyStr("YnBsaXN0MDA6dHJ1bmNhdGVk"), PyStr("YnBsaXN0MDA6dGFn"),
      PyStr("abc") }

\* mappings of 1..MaxFields fields with distinct names
FieldMappings ==
    { f \in UNION { [1..n -> FieldKeys \X FieldValues] : n \in 1..MaxFields } :
        \A i, j \in 1..Len(f) : i # j => f[i][1] # f[j][1] }

ParseInit ==
    /\ PhotosIdle
    /\ GeoIdle
    /\ PairIdle
    /\ fields_in \in FieldMappings
    /\ parsed = None

ParseNext == ParseCall

\* parse_fields on one record
ParseSpec == ParseInit /\ [][ParseNext]_vars

KeyChars == {"E", "n", "c", "x"}

\* every field name of up to MaxKeyLen characters
AllKeys == UNION { [1..n -> KeyChars] : n \in 0..MaxKeyLen }

\* a one-field mapping; the value decodes under either kind of name
KeyInit ==
    /\ PhotosIdle
    /\ GeoIdle
    /\ PairIdle
    /\ \E key \in AllKeys :
           fields_in = << <<key, PyStr("YnBsaXN0MDA6c3RyaW5n")>> >>
    /\ parsed = None

KeyNext == ParseCall

\* parse_fields on a field of any name
KeySpec == KeyInit /\ [][KeyNext]_vars

\* the locationEnc field: not held, an empty value, a base64 property list
\* (with lat and lon, empty, with lat only), a property list sent as it is,
\* and three values that do not decode
LocationFields ==
    {None} \cup
    { Some(Envelope(PyStr(text))) :
        text \in { "", "YnBsaXN0MDA6bG9jYXRpb24=", "YnBsaXN0MDA6bG9jYXRpb24tZW1wdHk=",
                   "YnBsaXN0MDA6bG9jYXRpb24tbGF0LW9ubHk=", "bplist00:loc",
                   "abc", "aGVsbG8=", "YnBsaXN0MDA6dHJ1bmNhdGVk" } }

\* the mediaMetaDataEnc field: not held, a base64 property list (with both
\* {GPS} entries, with Latitude only, without {GPS}), a property list sent as
\* it is, and two values that do not decode
MetadataFields ==
    {None} \cup
    { Some(Envelope(PyStr(text))) :
        text \in { "YnBsaXN0MDA6bWV0YWRhdGEtZ3Bz", "YnBsaXN0MDA6bWV0YWRhdGEtZ3BzLWxhdC1vbmx5",
                   "YnBsaXN0MDA6bWV0YWRhdGEtbm8tZ3Bz", "bplist00:gps",
                   "abc", "YnBsaXN0MDA6dGFn" } }

GeoInit ==
    /\ ServiceInit
    /\ direction = "ASCENDING"
    /\ \E master \in [mediaMetaDataEnc : MetadataFields],
          asset \in [locationEnc : LocationFields,
                     locationLatitude : {None, Some(Envelope(PyInt(11)))},
                     locationLongitude : {None, Some(Envelope(PyInt(12)))}] :
           AssetInit(master, asset)
    /\ ParseIdle
    /\ GeoIdle
    /\ PairIdle

GeoNext ==
    \/ ReadLatitude
    \/ ReadLongitude

\* one read of a coordinate of one PhotoAsset
GeoSpec == GeoInit /\ [][GeoNext]_vars

\* a constructed library, an album whose count is not yet known, and no
\* generator
PairInit ==
    /\ lib = "ready"
    /\ indexing = Some("FINISHED")
    /\ albumsCache = FALSE
    /\ albumQueries = 0
    /\ direction \in Directions
    /\ lenCache = None
    /\ countQueries = 0
    /\ lenRet = None
    /\ status = "none"
    /\ offset = 0
    /\ limit = None
    /\ total = 0
    /\ response = <<>>
    /\ idx = 0
    /\ nq = 0
    /\ lastRank = None
    /\ yielded = 0
    /\ joinedPairs = 0
    /\ origin = "none"
    /\ outcome = "none"
    /\ AssetInit(NoMasterFields, NoAssetFields)
    /\ ParseIdle
    /\ GeoIdle
    /\ PairIdle

PairNext ==
    \E s \in 1..2 :
        \/ PairPhotos(s)
        \/ PairFetchRecords(s)
        \/ PairPull(s)

\* two generators of one album, pulled in any interleaving
TwoStreamSpec == PairInit /\ [][PairNext]_vars

----------------------------------------------------------------------------
(* Properties of the fetch_records generator *)

\* A step of the generator itself (a pull), not the creation of a new one
SameStream == status' # "created"

\* C1: a master record with no asset record in its page is skipped without
\* any error: no pull ever ends in KeyError, and the generator is suspended
\* only on a master record that has an asset record in the same page.
C1_UnjoinedMasterSkipped ==
    /\ outcome # "KeyError"
    /\ status # "raised"

\* C2: once a page with zero master records has been received, the
\* generator has ended, it has yielded exactly as many PhotoAssets as there
\* are joined pairs in the pages received, and it issues no query and
\* yields nothing afterwards.
C2_EndsOnEmptyPage ==
    [][ /\ (nq' >= 1 /\ NumMasters(response') = 0)
            => (status' = "done" /\ yielded' = joinedPairs')
        /\ (nq >= 1 /\ NumMasters(response) = 0 /\ SameStream)
            => (nq' = nq /\ yielded' = yielded /\ status' = "done")
      ]_vars

C2_Witness ==
    /\ status = "done"
    /\ nq = 3
    /\ NumMasters(response) = 0
    /\ yielded = 2
    /\ outcome = "StopIteration"

\* C3: the startRank of a page query is the startRank of the query before
\* it plus (ASCENDING) or minus (DESCENDING) the number of CPLMaster records
\* of the page that query returned; other records do not count.
C3_OffsetByMasterCount ==
    [][ (nq' = nq + 1 /\ nq >= 1)
            => lastRank' = Some(IF direction = "DESCENDING"
                                THEN lastRank[1] - NumMasters(response)
                                ELSE lastRank[1] + NumMasters(response))
      ]_vars

C3_Witness ==
    /\ nq = 2
    /\ direction = "DESCENDING"
    /\ lastRank = Some(0 - 2)

\* C4 as claimed: after a consumed page with at least one master record
\* (and fewer records than requested) the next pull issues a further page
\* query, and the generator ends there only if that page has zero master
\* records.
C4_OnlyEmptyPageEnds ==
    [][ (/\ status = "suspended"
         /\ NumMasters(response) >= 1
         /\ Len(response) < resultsLimit
         /\ idx = NumMasters(response)
         /\ SameStream
         /\ streamVars' # streamVars)
            => /\ nq' = nq + 1
               /\ (status' = "done" => NumMasters(response') = 0)
      ]_vars

\* C4 amended: the generator ends only on a page with zero master records
\* or, without a further query, when total has reached limit; after a
\* consumed page with at least one master record and with total < limit the
\* next pull issues a further page query.
C4_EndsOnEmptyPageOrLimit ==
    [][ /\ (status' = "done" /\ status # "done")
            => \/ (nq' = nq + 1 /\ NumMasters(response') = 0)
               \/ (nq' = nq /\ total' >= limit'[1])
        /\ (/\ status = "suspended"
            /\ NumMasters(response) >= 1
            /\ Len(response) < resultsLimit
            /\ idx = NumMasters(response)
            /\ total < limit[1]
            /\ SameStream
            /\ streamVars' # streamVars)
            => nq' = nq + 1
      ]_vars

C4_Witness ==
    /\ status = "done"
    /\ nq = 3
    /\ NumMasters(response) >= 1
    /\ total >= limit[1]

\* C5: from one page query to the next the startRank moves by the number
\* of joined master+asset pairs of the page in between, which is at least
\* one: up for ASCENDING, down for DESCENDING.
C5_OffsetByJoinedPairs ==
    [][ (nq' = nq + 1 /\ nq >= 1)
            => /\ JoinedCount(response) >= 1
               /\ lastRank' = Some(IF direction = "DESCENDING"
                                   THEN lastRank[1] - JoinedCount(response)
                                   ELSE lastRank[1] + JoinedCount(response))
      ]_vars

C5_Witness ==
    /\ nq = 2
    /\ direction = "ASCENDING"
    /\ lastRank = Some(3)

\* C6: the count query is issued at most once; once _len is stored it never
\* changes and no further count query is issued, and every evaluation of
\* len(album) returns the stored value.
C6_CountFetchedOnce ==
    [][ /\ countQueries' <= 1
        /\ (lenCache # None) => (lenCache' = lenCache /\ countQueries' = countQueries)
        /\ (lenRet' # None) => (lenRet' = lenCache')
      ]_vars

C6_Witness ==
    /\ direction = "DESCENDING"
    /\ lenCache = Some(0)
    /\ countQueries = 1
    /\ status = "done"
    /\ nq = 0

\* C7: a CheckIndexingState answer other than FINISHED makes the
\* construction raise, and an album listing, count or page query is issued
\* only for a library whose indexing check answered FINISHED.
C7_IndexingGate ==
    /\ (indexing # None /\ indexing # Some("FINISHED")) => lib = "raised"
    /\ (albumQueries + countQueries + nq > 0)
           => (lib = "ready" /\ indexing = Some("FINISHED"))

C7_Witness ==
    /\ lib = "raised"
    /\ indexing = Some("RUNNING")
    /\ albumQueries + countQueries + nq = 0

\* C8: a page query is issued only by a pull, one per pull, when the
\* generator has just started or every master record of the previous page
\* has been visited; its startRank is the offset left by the previous page;
\* the pull that issued it hands its result (an asset, the end or an error)
\* to the consumer.
C8_QueryOnDemand ==
    [][ (nq' # nq /\ SameStream)
            => /\ nq' = nq + 1
               /\ \/ status = "created"
                  \/ (status = "suspended" /\ idx = NumMasters(response))
               /\ lastRank' = Some(offset)
               /\ \/ (yielded' = yielded + 1 /\ outcome' = "asset")
                  \/ (yielded' = yielded /\ status' \in {"done", "raised"})
      ]_vars

C8_Witness ==
    /\ nq = 2
    /\ yielded = 3
    /\ outcome = "asset"

----------------------------------------------------------------------------
(* Properties of PhotoAsset.versions *)

\* version v carries the size, URL, width, height and type of entry e
FromEntry(v, e) ==
    /\ v.size = Some(e.res.size)
    /\ v.url = Some(e.res.downloadURL)
    /\ v.width = e.width
    /\ v.height = e.height
    /\ v.type = e.fileType

\* C9: in the stored versions map, a tier of the media kind's table whose
\* <prefix>Res field is in the asset record carries the asset record's
\* size, URL, width, height and type, also when the master record has the
\* field with other values; a tier whose field is only in the master record
\* carries the master record's values.
C9_AssetRecordWins ==
    versionsMemo # None =>
        \A k \in DOMAIN typed_version_lookup :
            LET p == typed_version_lookup[k]
            IN  /\ p \in DOMAIN asset_record.res
                    => /\ k \in DOMAIN versionsMemo[1]
                       /\ FromEntry(versionsMemo[1][k], asset_record.res[p])
                /\ (p \in DOMAIN master_record.res /\ p \notin DOMAIN asset_record.res)
                    => /\ k \in DOMAIN versionsMemo[1]
                       /\ FromEntry(versionsMemo[1][k], master_record.res[p])

C9_Witness ==
    /\ versionsMemo # None
    /\ item_type = "image"
    /\ "resJPEGThumb" \in DOMAIN master_record.res
    /\ "resJPEGThumb" \in DOMAIN asset_record.res
    /\ master_record.res["resJPEGThumb"].res.size # asset_record.res["resJPEGThumb"].res.size
    /\ master_record.res["resJPEGThumb"].res.downloadURL
           # asset_record.res["resJPEGThumb"].res.downloadURL
    /\ versionsMemo[1]["thumb"].url = Some(asset_record.res["resJPEGThumb"].res.downloadURL)
    /\ "resOriginal" \in DOMAIN master_record.res
    /\ "resOriginal" \notin DOMAIN asset_record.res

\* C10: the versions map of a PhotoAsset is built on the first access only:
\* whatever the records hold, no later access builds and stores a map again.
C10_VersionsBuiltOnce ==
    built <= 1

\* C15: the first page query of a generator made by album.photos (or by
\* iterating the album) has startRank = count - 1 for a DESCENDING album,
\* count being the memoized item count, and startRank = 0 for an ASCENDING
\* one.
C15_FirstRankOfPhotos ==
    (origin = "photos" /\ nq = 1) =>
        lastRank = Some(IF direction = "DESCENDING" THEN lenCache[1] - 1 ELSE 0)

\* a DESCENDING album of two items: the first query of album.photos asks
\* for rank 1
C15_Witness ==
    /\ origin = "photos"
    /\ direction = "DESCENDING"
    /\ lenCache = Some(2)
    /\ nq = 1
    /\ lastRank = Some(1)

\* C17: a generator yields at most as many PhotoAssets as its limit, which
\* is the limit argument when one is given and len(album) otherwise.
C17_AtMostLimit ==
    status \in {"suspended", "done", "raised"} => yielded <= limit[1]

\* generator s has sent the queries, and yielded the asset, that its own
\* start offset and the pages answered to it give
AsAlone(s) ==
    /\ gens[s].nq = fed[s].queries
    /\ gens[s].nq >= 1 =>
           gens[s].lastRank = Some(IF direction = "DESCENDING"
                                   THEN fed[s].start - fed[s].before
                                   ELSE fed[s].start + fed[s].before)
    /\ gens[s].status = "suspended" =>
           /\ gens[s].idx \in 1..NumMasters(fed[s].page)
           /\ gens[s].asset = SelectSeq(fed[s].page, IsMaster)[gens[s].idx].recordName

\* C16: two generators of one album hold independent cursors: a pull on
\* one leaves the frame of the other as it is, each generator's startRank
\* and yielded asset follow from its own start offset and the pages
\* answered to it alone, and no album state but the memoized count (and the
\* number of count lookups) is written.
C16_IndependentCursors ==
    [][ /\ \A s \in 1..2 : gens'[s] # gens[s] => gens'[3 - s] = gens[3 - s]
        /\ \A s \in 1..2 : AsAlone(s)'
        /\ direction' = direction ]_vars

\* both generators are at their second page, at different ranks, each
\* suspended on an asset of its own page
C16_Witness ==
    /\ gens[1].nq = 2 /\ gens[2].nq = 2
    /\ gens[1].lastRank = Some(2) /\ gens[2].lastRank = Some(1)
    /\ gens[1].asset = 1 /\ gens[2].asset = 2
    /\ gens[1].status = "suspended" /\ gens[2].status = "suspended"

----------------------------------------------------------------------------
(* Properties of parse_fields *)

\* the field's content is encoded and its decoding fails
Malformed(field) ==
    /\ EndsWith(field[1], Enc)
    /\ LET data == b64decode(Unwrap(field[2]))
       IN  \/ data.exc = "binascii.Error"
           \/ data.exc = "none" /\ BPListReader_parse(data.val[1]).exc # "none"

\* the field is plain, or its content decodes
WellFormed(field) ==
    EndsWith(field[1], Enc) =>
        /\ b64decode(Unwrap(field[2])).exc = "none"
        /\ BPListReader_parse(b64decode(Unwrap(field[2])).val[1]).exc = "none"

\* the mapping without its i-th field
Without(fields, i) ==
    SubSeq(fields, 1, i - 1) \o SubSeq(fields, i + 1, Len(fields))

\* C11: when one field of the mapping is malformed (its name ends in Enc
\* and its content fails base64 or property-list decoding) and the others
\* are well-formed, parse_fields returns normally, with one entry per input
\* field, the sibling entries being those of the mapping without the bad
\* field, and the bad field's entry holding its raw undecoded value.
C11_MalformedFieldIsolated ==
    \A i \in 1..Len(fields_in) :
        ( /\ parsed # None
          /\ Malformed(fields_in[i])
          /\ \A j \in 1..Len(fields_in) : j # i => WellFormed(fields_in[j]) )
        => /\ parsed[1].exc = "none"
           /\ Len(parsed[1].val[1].v) = Len(fields_in)
           /\ Without(parsed[1].val[1].v, i)
                  = parse_fields(Without(fields_in, i)).val[1].v
           /\ parsed[1].val[1].v[i][2] = Unwrap(fields_in[i][2])

\* C12: a field whose name ends with Enc is stored under the name without
\* exactly that trailing suffix, and any other field under its own name.
C12_TrailingEncStripped ==
    parsed # None =>
        LET key == fields_in[1][1]
        IN  /\ parsed[1].exc = "none"
            /\ parsed[1].val[1].v[1][1]
                   = IF Len(key) >= 3 /\ SubSeq(key, Len(key) - 2, Len(key)) = <<"E", "n", "c">>
                     THEN SubSeq(key, 1, Len(key) - 3)
                     ELSE key

----------------------------------------------------------------------------
(* Properties of PhotoAsset.latitude and PhotoAsset.longitude *)

\* the field holds a value and neither reading of it is a property list
FailsToDecode(field) ==
    /\ Truthy(FieldValue(field))
    /\ FromBase64(FieldValue(field)).exc # "none"
    /\ BPListReader_parse(FieldValue(field).v[1]).exc # "none"

\* the structure a field decodes to, PyNone when there is none
Decoded(field) ==
    IF ~Truthy(FieldValue(field)) \/ FailsToDecode(field) THEN PyNone
    ELSE IF FromBase64(FieldValue(field)).exc = "none"
         THEN FromBase64(FieldValue(field)).val[1]
         ELSE BPListReader_parse(FieldValue(field).v[1]).val[1]

HasEntry(d, key) == d.t = "dict" /\ \E i \in 1..Len(d.v) : d.v[i][1] = key

Entry(d, key) == d.v[CHOOSE i \in 1..Len(d.v) : d.v[i][1] = key][2]

Absent(d) == d = PyNone \/ d = PyDict(<<>>)

LocKey == IF geoRead = "latitude" THEN KeyLat ELSE KeyLon

GpsKey == IF geoRead = "latitude" THEN KeyLatitude ELSE KeyLongitude

RawField ==
    IF geoRead = "latitude" THEN asset_record.locationLatitude
    ELSE asset_record.locationLongitude

\* what the metadata source alone answers
MetadataAnswer ==
    LET meta == Decoded(master_record.mediaMetaDataEnc)
    IN  IF HasEntry(meta, KeyGPS) /\ HasEntry(Entry(meta, KeyGPS), GpsKey)
        THEN Ok(Entry(Entry(meta, KeyGPS), GpsKey).v[2])
        ELSE Ok(PyNone)

\* C13: latitude and longitude follow one priority: the second element of
\* the lat / lon entry of the asset record's decoded location when it has
\* one; with no location, the second element of the Latitude / Longitude
\* entry of the {GPS} substructure of the master record's decoded metadata;
\* otherwise None. The raw locationLatitude / locationLongitude field is
\* never what is returned.
C13_CoordinatePriority ==
    geoRet # None =>
        LET loc == Decoded(asset_record.locationEnc)
        IN  /\ HasEntry(loc, LocKey) => geoRet[1] = Ok(Entry(loc, LocKey).v[2])
            /\ Absent(loc) => geoRet[1] = MetadataAnswer
            /\ RawField # None =>
                   geoRet[1] \notin {Ok(RawField[1]), Ok(FieldValue(RawField))}

\* both sources hold a coordinate and a raw field is there: the location wins
C13_Witness ==
    /\ geoRead = "longitude"
    /\ geoRet = Some(Ok(PyInt(122)))
    /\ MetadataAnswer = Ok(PyInt(2))
    /\ asset_record.locationLongitude # None

\* C14: a read of latitude or longitude does not raise on a decode failure:
\* when locationEnc fails to decode the answer is the one of the metadata
\* source, and when mediaMetaDataEnc fails to decode too, or fails with no
\* location held, the answer is None.
C14_DecodeFailureIsAbsent ==
    geoRet # None =>
        /\ FailsToDecode(asset_record.locationEnc) =>
               /\ geoRet[1].exc = "none"
               /\ geoRet[1] = MetadataAnswer
        /\ ( /\ FailsToDecode(master_record.mediaMetaDataEnc)
             /\ \/ FailsToDecode(asset_record.locationEnc)
                \/ Absent(Decoded(asset_record.locationEnc)) )
           => geoRet[1] = Ok(PyNone)

\* locationEnc fails to decode and the metadata gives the latitude
C14_Witness ==
    /\ geoRead = "latitude"
    /\ FailsToDecode(asset_record.locationEnc)
    /\ geoRet = Some(Ok(PyInt(48)))

=============================================================================
